---- MODULE Spec2Model ----
(***************************************************************************)
(* State-machine model of ratsat's solver core (src/ratsat/src/core.rs):   *)
(* new_var, add_clause_reuse, simplify, and the routines simplify calls    *)
(* (propagate, remove_satisfied, check_garbage, garbage_collect,           *)
(* reloc_all, rebuild_order_heap).  propagate is modelled step by step     *)
(* (one dequeued literal, one watcher at a time); the other handlers are   *)
(* single actions.  Lit, lbool, the clause arena and the occurrence lists  *)
(* live in modules that are not part of core.rs; they are modelled from    *)
(* their documented behaviour.                                             *)
(***************************************************************************)
EXTENDS Integers, Sequences, FiniteSets, TLC

\* ------------------------------------------------------------------ bounds
\* Number of variables the client may create.
MaxVars == 3
\* Longest literal vector handed to add_clause_reuse.
MaxLen == 3
\* Number of add_clause_reuse calls in one run.
MaxAdds == 3
\* The same three bounds for the runs with longer clauses (SpecWide): four
\* variables and vectors of four literals, two add_clause_reuse calls.
WideVars == 4
WideLen == 4
WideAdds == 2
\* The implication-chain runs (SpecChain): variables of the chain, and the
\* number of binary clauses the client may add (repeats included).
ChainVars == 4
ChainAdds == 4
\* The runs with every kind of variable (SpecNewVar): FlagVars variables,
\* vectors of up to FlagLen literals, FlagAdds add_clause_reuse calls.
FlagVars == 2
FlagLen == 2
FlagAdds == 2

\* --------------------------------------------------- Lit, lbool, CRef, Vec
\* lbool values.
LTrue == "TRUE"
LFalse == "FALSE"
LUndef == "UNDEF"

\* CRef::UNDEF and Lit::UNDEF sentinels (never a real handle / literal).
CRefUndef == -1
LitUndef == -2

\* Words of a clause header in the arena.
HeaderWords == 1

\* Lit::new(v, sign): literals are encoded as 2*var + sign.
MkLit(v, sign) == 2 * v + (IF sign THEN 1 ELSE 0)
\* Lit::var
VarOf(l) == l \div 2
\* Lit::sign
SignOf(l) == l % 2 = 1
\* !lit : negation flips the sign bit.
Neg(l) == IF l % 2 = 0 THEN l + 1 ELSE l - 1

\* lbool ^ bool : flips TRUE/FALSE, leaves UNDEF fixed.
LXor(b, s) ==
    IF ~s \/ b = LUndef THEN b
    ELSE IF b = LTrue THEN LFalse ELSE LTrue

\* lbool::new(bool)
LNew(b) == IF b THEN LTrue ELSE LFalse

\* Vec::push
Push(s, x) == Append(s, x)

\* Vec::resize(new_len, value): truncate, or extend with copies of value.
Resize(s, n, fill) ==
    [x \in 1..n |-> IF x <= Len(s) THEN s[x] ELSE fill]

\* Insert x into the sorted sequence s (ascending literal index).
RECURSIVE SortedInsert(_, _)
SortedInsert(s, x) ==
    IF s = <<>> THEN <<x>>
    ELSE IF x <= Head(s) THEN <<x>> \o s
    ELSE <<Head(s)>> \o SortedInsert(Tail(s), x)

\* clause.sort(): Lit orders by its index 2*var + sign.
RECURSIVE Sort(_)
Sort(s) ==
    IF s = <<>> THEN <<>> ELSE SortedInsert(Sort(Tail(s)), Head(s))

\* Elements of a sequence.
Range(s) == {s[x] : x \in DOMAIN s}

\* ------------------------------------------------------------------- state
VARIABLES
    next_var,          \* Solver.next_var: next variable to be created
    assigns,           \* SolverV.assigns : Var -> lbool
    vardata,           \* SolverV.vardata : Var -> [reason, level]
    trail,             \* SolverV.trail
    qhead,             \* Solver.qhead
    ok,                \* Solver.ok
    clauses,           \* Solver.clauses : Vec<CRef>
    learnts,           \* Solver.learnts : Vec<CRef>
    watches,           \* Solver.watches_data : Lit -> Vec<Watcher>
    dirty,             \* smudged literals of the occurrence lists
    ca,                \* Solver.ca : [cl, len, wasted]
    stats,             \* num_clauses, clauses_literals, num_learnts, learnts_literals
    propagations,      \* Solver.propagations
    simp_db_assigns,   \* Solver.simp_db_assigns
    simp_db_props,     \* Solver.simp_db_props
    decision,          \* Solver.decision : Var -> bool
    user_pol,          \* Solver.user_pol : Var -> lbool
    dec_vars,          \* Solver.dec_vars
    order_heap,        \* members of Solver.order_heap_data
    pc,                \* position: "idle", inside propagate, or "fault"
    prop,              \* locals of the running propagate: p, i, j, end, confl, num_props
    op,                \* last public operation that returned
    ret,               \* its boolean result (add_clause_reuse, simplify)
    ret_var,           \* the Var new_var returned last
    added,             \* clauses handed to add_clause_reuse so far (as literal sets)
    last_in,           \* literals of the vector handed to the last add_clause_reuse
    nadds              \* number of add_clause_reuse calls so far

vars == <<next_var, assigns, vardata, trail, qhead, ok, clauses, learnts,
          watches, dirty, ca, stats, propagations, simp_db_assigns,
          simp_db_props, decision, user_pol, dec_vars, order_heap, pc, prop,
          op, ret, ret_var, added, last_in, nadds>>

solverState == <<next_var, assigns, vardata, trail, qhead, ok, clauses, learnts,
                 watches, dirty, ca, stats, propagations, simp_db_assigns,
                 simp_db_props, decision, user_pol, dec_vars, order_heap>>

\* Var indices in use and their literals.
Vars == 0..(next_var - 1)
Lits == 0..(2 * next_var - 1)

\* A variant of the locals in which num_props does not start at zero.
NoPropCounted == [p |-> LitUndef, i |-> 0, j |-> 0, end |-> 0,
                  confl |-> CRefUndef, num_props |-> 1]

\* Locals of propagate when it is not running.
NoProp == [p |-> LitUndef, i |-> 0, j |-> 0, end |-> 0,
           confl |-> CRefUndef, num_props |-> 0]

\* SolverV::value_lit under an assignment a.
ValueLitIn(a, l) == LXor(a[VarOf(l)], SignOf(l))
\* SolverV::value_lit
value_lit(l) == ValueLitIn(assigns, l)
\* SolverV::num_assigns
num_assigns == Len(trail)
\* SolverV::decision_level: trail_lim is never pushed to in core.rs.
decision_level == 0

\* VarData::new
VarData(reason, level) == [reason |-> reason, level |-> level]
\* Watcher::new
Watcher(cref, blocker) == [cref |-> cref, blocker |-> blocker]

\* Function update that may extend the domain.
Put(f, k, v) == [x \in DOMAIN f \cup {k} |-> IF x = k THEN v ELSE f[x]]

\* ------------------------------------------------------------ clause arena
\* ClauseAllocator::new
EmptyArena == [cl |-> <<>>, len |-> 0, wasted |-> 0]

\* Words a clause of n literals occupies.
ClauseWords(n, learnt) == HeaderWords + n + (IF learnt THEN 1 ELSE 0)

\* ClauseAllocator::alloc_with_learnt: the new clause sits at offset len.
AllocCRef(a) == a.len
Alloc(a, lits, learnt) ==
    [a EXCEPT !.cl = Put(a.cl, a.len, [lits |-> lits, mark |-> 0, learnt |-> learnt]),
              !.len = a.len + ClauseWords(Len(lits), learnt)]

\* A handle is usable when it is the offset of a clause of this arena.
ValidCRef(a, cr) == cr \in DOMAIN a.cl

\* WatcherDeleted::deleted
deleted(a, w) == a.cl[w.cref].mark = 1

Init ==
    /\ next_var = 0
    /\ assigns = <<>>
    /\ vardata = <<>>
    /\ trail = <<>>
    /\ qhead = 0
    /\ ok = TRUE
    /\ clauses = <<>>
    /\ learnts = <<>>
    /\ watches = <<>>
    /\ dirty = {}
    /\ ca = EmptyArena
    /\ stats = [num_clauses |-> 0, clauses_literals |-> 0,
                num_learnts |-> 0, learnts_literals |-> 0]
    /\ propagations = 0
    /\ simp_db_assigns = -1
    /\ simp_db_props = 0
    /\ decision = <<>>
    /\ user_pol = <<>>
    /\ dec_vars = 0
    /\ order_heap = {}
    /\ pc = "idle"
    /\ prop = NoProp
    /\ op = "init"
    /\ ret = TRUE
    /\ ret_var = -1
    /\ added = {}
    /\ last_in = {}
    /\ nadds = 0

\* The literal vectors a client passes: sequences over S of length 0..n, in
\* non-increasing order (repeats allowed).  add_clause_reuse sorts its vector
\* before it reads it, so the other orders of the same literals lead to the
\* same states; these are the orders the sort has most work on.
SeqsUpTo(S, n) ==
    UNION {{v \in [1..k -> S] : \A x \in 1..(k - 1) : v[x] >= v[x + 1]} : k \in 0..n}

\* ---------------------------------------------------------------- new_var
\* A variant of set_decision_var that never counts the variable.
SetDecisionVarUncounted(dec, dv, heap, v, b) ==
    LET dec2 == [dec EXCEPT ![v] = b]
        heap2 == IF v \notin heap /\ dec2[v] THEN heap \cup {v} ELSE heap
    IN [decision |-> dec2, dec_vars |-> dv, order_heap |-> heap2]

\* Solver::set_decision_var followed by insert_var_order, on the maps given.
SetDecisionVar(dec, dv, heap, v, b) ==
    LET dv2 == IF b /\ ~dec[v] THEN dv + 1
               ELSE IF ~b /\ dec[v] THEN dv - 1 ELSE dv
        dec2 == [dec EXCEPT ![v] = b]
        heap2 == IF v \notin heap /\ dec2[v] THEN heap \cup {v} ELSE heap
    IN [decision |-> dec2, dec_vars |-> dv2, order_heap |-> heap2]

\* Solver::new_var.  free_vars is only filled from released_vars, which no
\* routine of core.rs fills, so the variable is always next_var.
NewVarWithin(limit, upol, dvar) ==
    /\ pc = "idle"
    /\ next_var < limit
    /\ LET v == next_var
           sd == SetDecisionVar(Put(decision, v, FALSE), dec_vars, order_heap, v, dvar)
       IN /\ next_var' = next_var + 1
          /\ watches' = Put(Put(watches, MkLit(v, FALSE), <<>>), MkLit(v, TRUE), <<>>)
          /\ assigns' = Put(assigns, v, LUndef)
          /\ vardata' = Put(vardata, v, VarData(CRefUndef, 0))
          /\ user_pol' = Put(user_pol, v, upol)
          /\ decision' = sd.decision
          /\ dec_vars' = sd.dec_vars
          /\ order_heap' = sd.order_heap
          /\ op' = "new_var"
          /\ ret_var' = v
    /\ UNCHANGED <<trail, qhead, ok, clauses, learnts, dirty, ca, stats,
                   propagations, simp_db_assigns, simp_db_props, pc, prop,
                   ret, added, last_in, nadds>>

\* Solver::new_var, while the client has variables left to create.
NewVar(upol, dvar) == NewVarWithin(MaxVars, upol, dvar)

\* Solver::new_var_default
NewVarDefault == NewVar(LUndef, TRUE)

\* ------------------------------------------------------- add_clause_reuse
\* SolverV::unchecked_enqueue on (assigns, vardata, trail).
UncheckedEnqueue(a, vd, t, l, from) ==
    [assigns |-> [a EXCEPT ![VarOf(l)] = LNew(~SignOf(l))],
     vardata |-> [vd EXCEPT ![VarOf(l)] = VarData(from, decision_level)],
     trail |-> Push(t, l)]

\* The scan of add_clause_reuse over the sorted vector c from index i:
\* out is clause[0..j], last is last_lit.  sat is the early `return true`.
RECURSIVE ReduceFrom(_, _, _, _)
ReduceFrom(c, i, out, last) ==
    IF i > Len(c) THEN [sat |-> FALSE, lits |-> out]
    ELSE LET value == value_lit(c[i])
         IN IF value = LTrue \/ c[i] = Neg(last)
            THEN [sat |-> TRUE, lits |-> out]
            ELSE IF value # LFalse /\ c[i] # last
                 THEN ReduceFrom(c, i + 1, Append(out, c[i]), c[i])
                 ELSE ReduceFrom(c, i + 1, out, last)

\* A variant of the reduction that scans the vector in the caller's order
\* (the clause.sort() call left out).
ReduceClauseUnsorted(input) == ReduceFrom(input, 1, <<>>, LitUndef)

\* clause.sort() and the scan.
ReduceClause(input) == ReduceFrom(Sort(input), 1, <<>>, LitUndef)

\* A variant of attach_clause that puts the watchers on the lists of c[0] and
\* c[1] themselves.
AttachWatchesUnnegated(w, cr, c) ==
    LET w1 == [w EXCEPT ![c[1]] = Push(@, Watcher(cr, c[2]))]
    IN [w1 EXCEPT ![c[2]] = Push(@, Watcher(cr, c[1]))]

\* Solver::attach_clause: the two watchers and the statistics.
AttachWatches(w, cr, c) ==
    LET w1 == [w EXCEPT ![Neg(c[1])] = Push(@, Watcher(cr, c[2]))]
    IN [w1 EXCEPT ![Neg(c[2])] = Push(@, Watcher(cr, c[1]))]

AttachStats(st, c, learnt) ==
    IF learnt
    THEN [st EXCEPT !.num_learnts = @ + 1, !.learnts_literals = @ + Len(c)]
    ELSE [st EXCEPT !.num_clauses = @ + 1, !.clauses_literals = @ + Len(c)]

\* A variant of add_clause_reuse's first test that never takes the early
\* return.
AddClauseIgnoresOk == FALSE

\* The test `!self.ok` that opens add_clause_reuse.
AddClauseNotOk == ~ok

\* Solver::add_clause_reuse, the client's call number at most limit.
AddClauseWithin(limit, input) ==
    /\ pc = "idle"
    /\ nadds < limit
    /\ nadds' = nadds + 1
    /\ added' = added \cup {Range(input)}
    /\ last_in' = Range(input)
    /\ op' = "add_clause"
    /\ UNCHANGED <<next_var, qhead, learnts, dirty, propagations, simp_db_assigns,
                   simp_db_props, decision, user_pol, dec_vars, order_heap,
                   pc, prop, ret_var>>
    /\ IF AddClauseNotOk
       THEN /\ ret' = FALSE
            /\ UNCHANGED <<assigns, vardata, trail, ok, clauses, watches, ca, stats>>
       ELSE LET r == ReduceClause(input)
                c == r.lits
            IN IF r.sat
               THEN /\ ret' = TRUE
                    /\ UNCHANGED <<assigns, vardata, trail, ok, clauses, watches,
                                   ca, stats>>
               ELSE IF Len(c) = 0
               THEN /\ ok' = FALSE
                    /\ ret' = FALSE
                    /\ UNCHANGED <<assigns, vardata, trail, clauses, watches, ca, stats>>
               ELSE IF Len(c) = 1
               THEN LET e == UncheckedEnqueue(assigns, vardata, trail, c[1], CRefUndef)
                    IN /\ assigns' = e.assigns
                       /\ vardata' = e.vardata
                       /\ trail' = e.trail
                       /\ ret' = TRUE
                       /\ UNCHANGED <<ok, clauses, watches, ca, stats>>
               ELSE LET cr == AllocCRef(ca)
                    IN /\ ca' = Alloc(ca, c, FALSE)
                       /\ clauses' = Push(clauses, cr)
                       /\ watches' = AttachWatches(watches, cr, c)
                       /\ stats' = AttachStats(stats, c, FALSE)
                       /\ ret' = TRUE
                       /\ UNCHANGED <<assigns, vardata, trail, ok>>

\* Solver::add_clause_reuse
AddClause(input) == AddClauseWithin(MaxAdds, input)

\* The vectors over the literals of the first n variables.
Inputs == [n \in 0..MaxVars |-> SeqsUpTo(0..(2 * n - 1), MaxLen)]

\* The client hands add_clause_reuse any vector over the existing literals.
AddClauseAny == \E input \in Inputs[next_var] : AddClause(input)


\* --------------------------------------------------------------- propagate
\* OccLists::lookup_mut_pred: a smudged list is cleaned before it is read.
CleanList(a, ws) == SelectSeq(ws, LAMBDA w : ~deleted(a, w))

\* A variant of the outer loop test that stops one literal early.
QueueNonEmptyOffByOne(q, t) == q + 1 < Len(t)

\* Loop test of propagate's outer loop.
QueueNonEmpty(q, t) == q < Len(t)

\* Top of propagate's outer loop on the state (q, wl, d, pr) = (qhead,
\* watches, dirty, locals).  While the queue is not empty: dequeue p, take
\* (and clean) its watch list, reset the cursors, enter the inner loop.
\* Otherwise leave the loop: num_props goes to the statistics and confl is
\* returned to simplify.
PropLoopTop(q, wl, d, pr) ==
    IF QueueNonEmpty(q, trail)
    THEN LET p == trail[q + 1]
             ws == IF p \in d THEN CleanList(ca, wl[p]) ELSE wl[p]
         IN /\ qhead' = q + 1
            /\ watches' = [wl EXCEPT ![p] = ws]
            /\ dirty' = d \ {p}
            /\ prop' = [pr EXCEPT !.p = p, !.i = 0, !.j = 0, !.end = Len(ws),
                                  !.num_props = @ + 1]
            /\ pc' = "prop_watch"
            /\ UNCHANGED <<propagations, simp_db_props>>
    ELSE /\ qhead' = q
         /\ watches' = wl
         /\ dirty' = d
         /\ prop' = pr
         /\ propagations' = propagations + pr.num_props
         /\ simp_db_props' = simp_db_props - pr.num_props
         /\ pc' = "prop_ret"

\* The test `!self.ok` that opens simplify.
SimplifyNotOk == ~ok

\* Entry of Solver::simplify: the ok test, then the call of propagate up to
\* its first watcher (or its return when nothing is pending).
SimplifyCall ==
    /\ pc = "idle"
    /\ IF SimplifyNotOk
       THEN /\ ok' = FALSE
            /\ ret' = FALSE
            /\ op' = "simplify"
            /\ UNCHANGED <<pc, prop, qhead, watches, dirty, propagations,
                           simp_db_props>>
       ELSE /\ PropLoopTop(qhead, watches, dirty, NoProp)
            /\ UNCHANGED <<ok, ret, op>>
    /\ UNCHANGED <<next_var, assigns, vardata, trail, clauses, learnts,
                   ca, stats, simp_db_assigns, decision, user_pol, dec_vars,
                   order_heap, ret_var, added, last_in, nadds>>

\* A variant of the swap that leaves the clause as it is.
SwapFalseLitNever(c, false_lit) == c

\* "Make sure the false literal is data[1]".
SwapFalseLit(c, false_lit) ==
    IF c[1] = false_lit THEN [c EXCEPT ![1] = c[2], ![2] = false_lit] ELSE c

\* A variant that names the list by the position the replacement came from,
\* which holds the falsified literal after the exchange.
NewWatchLitAtK(c, k) == c[k]

\* The literal whose negation names the list the watcher is pushed to: c[1]
\* after the exchange (position 2 here, k is 1-based).
NewWatchLit(c, k) == c[2]

\* "Look for new watch": the for loop over k in 2..c.size() (k is 1-based
\* here).  It has no exit: every non-false c[k] is moved to c[1] and w is
\* pushed to the list of !c[1].  bad records a failed assert_ne!(!c[1], p).
RECURSIVE LookForWatch(_, _, _, _, _, _)
LookForWatch(c, k, wl, w, false_lit, p) ==
    IF k > Len(c) THEN [c |-> c, watches |-> wl, bad |-> FALSE, found |-> 0]
    ELSE IF value_lit(c[k]) # LFalse
    THEN LET c2 == [c EXCEPT ![2] = c[k], ![k] = false_lit]
             l == Neg(NewWatchLit(c2, k))
         IN IF l = p
            THEN [c |-> c2, watches |-> wl, bad |-> TRUE, found |-> 1]
            ELSE LET r == LookForWatch(c2, k + 1,
                              [wl EXCEPT ![l] = Push(@, w)], w, false_lit, p)
                 IN [r EXCEPT !.found = @ + 1]
    ELSE LookForWatch(c, k + 1, wl, w, false_lit, p)

\* "Copy the remaining watches": ws[j] = ws[i] for the unvisited tail.
RECURSIVE CopyRemaining(_, _, _, _)
CopyRemaining(ws, i, j, end) ==
    IF i < end
    THEN CopyRemaining([ws EXCEPT ![j + 1] = ws[i + 1]], i + 1, j + 1, end)
    ELSE [ws |-> ws, i |-> i, j |-> j]

\* A variant of the conflict branch that does not record the clause.
OnConflictUnrecorded(pr, r, cr) == [pr EXCEPT !.i = r.i, !.j = r.j]

\* Locals after a conflict: confl = cr, the tail of the list copied (r).
OnConflict(pr, r, cr) == [pr EXCEPT !.i = r.i, !.j = r.j, !.confl = cr]

\* A variant of the conflict test that always takes the enqueue branch.
IsConflictNever(first) == FALSE

\* The conflict test after the search: value_lit(first) == FALSE.
IsConflict(first) == value_lit(first) = LFalse

\* One iteration of the inner loop: the watcher ws[i] of p's list.
PropWatch ==
    /\ pc = "prop_watch"
    /\ prop.i < prop.end
    /\ UNCHANGED <<next_var, ok, clauses, learnts, dirty, stats, propagations,
                   simp_db_assigns, simp_db_props, decision, user_pol, dec_vars,
                   order_heap, op, ret, ret_var, added, last_in, nadds>>
    /\ LET p == prop.p
           i == prop.i
           j == prop.j
           ws == watches[p]
           blocker == ws[i + 1].blocker
           cr == ws[i + 1].cref
       IN IF value_lit(blocker) = LTrue
          THEN /\ watches' = [watches EXCEPT ![p][j + 1] = ws[i + 1]]
               /\ prop' = [prop EXCEPT !.i = i + 1, !.j = j + 1]
               /\ UNCHANGED <<assigns, vardata, trail, qhead, ca, pc>>
          ELSE IF ~ValidCRef(ca, cr)
          THEN /\ pc' = "fault"
               /\ UNCHANGED <<assigns, vardata, trail, qhead, ca, watches, prop>>
          ELSE LET false_lit == Neg(p)
                   c1 == SwapFalseLit(ca.cl[cr].lits, false_lit)
                   first == c1[1]
                   w == Watcher(cr, first)
               IN IF first # blocker /\ value_lit(first) = LTrue
                  THEN /\ ca' = [ca EXCEPT !.cl[cr].lits = c1]
                       /\ watches' = [watches EXCEPT ![p][j + 1] = w]
                       /\ prop' = [prop EXCEPT !.i = i + 1, !.j = j + 1]
                       /\ UNCHANGED <<assigns, vardata, trail, qhead, pc>>
                  ELSE LET s == LookForWatch(c1, 3, watches, w, false_lit, p)
                           ca2 == [ca EXCEPT !.cl[cr].lits = s.c]
                       IN IF s.bad
                          THEN /\ pc' = "fault"
                               /\ ca' = ca2
                               /\ watches' = s.watches
                               /\ UNCHANGED <<assigns, vardata, trail, qhead, prop>>
                          ELSE IF IsConflict(first)
                          THEN LET r == CopyRemaining(
                                          [s.watches[p] EXCEPT ![j + 1] = w],
                                          i + 1, j + 1, prop.end)
                               IN /\ ca' = ca2
                                  /\ watches' = [s.watches EXCEPT ![p] = r.ws]
                                  /\ prop' = OnConflict(prop, r, cr)
                                  /\ qhead' = Len(trail)
                                  /\ UNCHANGED <<assigns, vardata, trail, pc>>
                          ELSE LET e == UncheckedEnqueue(assigns, vardata, trail,
                                                         first, cr)
                               IN /\ ca' = ca2
                                  /\ watches' = [s.watches EXCEPT ![p][j + 1] = w]
                                  /\ prop' = [prop EXCEPT !.i = i + 1, !.j = j + 1]
                                  /\ assigns' = e.assigns
                                  /\ vardata' = e.vardata
                                  /\ trail' = e.trail
                                  /\ UNCHANGED <<qhead, pc>>

\* The dummy watcher ws.resize fills with.
DummyWatcher == Watcher(CRefUndef, LitUndef)

\* New length of p's list after its inner loop: ws.resize(i - j, dummy).
ResizeLen(i, j) == i - j

\* End of the inner loop: resize p's list, then the outer loop's next
\* iteration (or the return of propagate).
PropEndList ==
    /\ pc = "prop_watch"
    /\ prop.i >= prop.end
    /\ PropLoopTop(qhead,
                   [watches EXCEPT
                      ![prop.p] = Resize(@, ResizeLen(prop.i, prop.j), DummyWatcher)],
                   dirty, prop)
    /\ UNCHANGED <<next_var, assigns, vardata, trail, ok, clauses, learnts,
                   ca, stats, simp_db_assigns, decision, user_pol, dec_vars,
                   order_heap, op, ret, ret_var, added, last_in, nadds>>

\* ------------------------------------------------- remove_satisfied, detach
\* The part of the solver that remove_satisfied and garbage_collect work on.
\* fault is set when a handle that is no clause of the arena is dereferenced
\* or an unsigned counter would go below zero.
Work == [ca |-> ca, dirty |-> dirty, vardata |-> vardata, stats |-> stats,
         watches |-> watches, clauses |-> clauses, learnts |-> learnts,
         fault |-> FALSE]

\* SolverV::satisfied
satisfied(lits) == \E x \in DOMAIN lits : value_lit(lits[x]) = LTrue

\* A variant of locked for which no clause is a reason.
LockedNever(a, vd, cr) == FALSE

\* SolverV::locked, for the clause at handle cr of arena a.
locked(a, vd, cr) ==
    LET c0 == a.cl[cr].lits[1]
        reason == vd[VarOf(c0)].reason
    IN value_lit(c0) = LTrue /\ reason # CRefUndef /\ reason = cr

\* The handle locked() dereferences, if any, is a clause of the arena.
LockedDerefOk(a, vd, cr) ==
    LET c0 == a.cl[cr].lits[1]
        reason == vd[VarOf(c0)].reason
    IN (value_lit(c0) = LTrue /\ reason # CRefUndef) => ValidCRef(a, reason)

\* SolverV::detach_clause_strict with strict = false: smudge both watched
\* lists, decrement the statistics.
DetachStats(st, size, learnt) ==
    IF learnt
    THEN [st EXCEPT !.num_learnts = @ - 1, !.learnts_literals = @ - size]
    ELSE [st EXCEPT !.num_clauses = @ - 1, !.clauses_literals = @ - size]

StatsOk(st) ==
    /\ st.num_clauses >= 0 /\ st.clauses_literals >= 0
    /\ st.num_learnts >= 0 /\ st.learnts_literals >= 0

\* ClauseAllocator::free
Free(a, cr) ==
    [a EXCEPT !.wasted = @ + ClauseWords(Len(a.cl[cr].lits), a.cl[cr].learnt)]

\* ClauseAllocator::free_amount
FreeAmount(a, amount) == [a EXCEPT !.wasted = @ + amount]

\* SolverV::remove_clause: detach lazily, clear a locked reason, mark, free.
RemoveClause(w, cr) ==
    LET c == w.ca.cl[cr]
        st == DetachStats(w.stats, Len(c.lits), c.learnt)
    IN IF ~StatsOk(st) \/ ~LockedDerefOk(w.ca, w.vardata, cr)
       THEN [w EXCEPT !.fault = TRUE]
       ELSE [w EXCEPT
               !.dirty = @ \cup {Neg(c.lits[1]), Neg(c.lits[2])},
               !.stats = st,
               !.vardata = IF locked(w.ca, w.vardata, cr)
                           THEN [@ EXCEPT ![VarOf(c.lits[1])].reason = CRefUndef]
                           ELSE @,
               !.ca = Free([w.ca EXCEPT !.cl[cr].mark = 1], cr)]

\* "Trim clause": the while loop of remove_satisfied (k, end are 0-based).
RECURSIVE TrimLoop(_, _, _)
TrimLoop(c, k, end) ==
    IF k < end
    THEN IF value_lit(c[k + 1]) = LFalse
         THEN TrimLoop([c EXCEPT ![k + 1] = c[end]], k, end - 1)
         ELSE TrimLoop(c, k + 1, end)
    ELSE SubSeq(c, 1, end)

\* The body of the retain closure for an unsatisfied clause.
TrimClause(w, cr) ==
    LET c == w.ca.cl[cr].lits
        t == TrimLoop(c, 2, Len(c))
    IN [w EXCEPT !.ca = FreeAmount([w.ca EXCEPT !.cl[cr].lits = t], Len(c) - Len(t))]

\* cs.retain(..) of remove_satisfied over cs[x..]; kept is the retained prefix.
RECURSIVE RetainUnsatisfied(_, _, _, _)
RetainUnsatisfied(w, cs, x, kept) ==
    IF x > Len(cs) \/ w.fault THEN [w |-> w, kept |-> kept]
    ELSE LET cr == cs[x]
         IN IF ~ValidCRef(w.ca, cr)
            THEN [w |-> [w EXCEPT !.fault = TRUE], kept |-> kept]
            ELSE IF satisfied(w.ca.cl[cr].lits)
            THEN RetainUnsatisfied(RemoveClause(w, cr), cs, x + 1, kept)
            ELSE RetainUnsatisfied(TrimClause(w, cr), cs, x + 1, Append(kept, cr))

\* Solver::remove_satisfied(shrink_learnts)
remove_satisfied(w, shrink_learnts) ==
    IF w.fault THEN w
    ELSE IF shrink_learnts
    THEN LET r == RetainUnsatisfied(w, w.learnts, 1, <<>>)
         IN [r.w EXCEPT !.learnts = r.kept]
    ELSE LET r == RetainUnsatisfied(w, w.clauses, 1, <<>>)
         IN [r.w EXCEPT !.clauses = r.kept]

\* ------------------------------------------------------- garbage collection
\* garbage_frac = 0.20, as the fraction GarbageFracNum / GarbageFracDen.
GarbageFracNum == 1
GarbageFracDen == 5

\* Solver.remove_satisfied (the flag): set to true, never changed.
remove_satisfied_flag == TRUE

\* ClauseAllocator::reloc(&mut cr, to) on the collection state g: from is
\* the old arena, map the forwarding addresses left in it, to the new arena.
\* The relocated handle is Reloc(g, cr).map[cr].
Reloc(g, cr) ==
    IF ~ValidCRef(g.from, cr) THEN [g EXCEPT !.fault = TRUE]
    ELSE IF cr \in DOMAIN g.map THEN g
    ELSE LET c == g.from.cl[cr]
         IN [g EXCEPT !.map = Put(@, cr, g.to.len),
                      !.to = [cl |-> Put(g.to.cl, g.to.len, c),
                              len |-> g.to.len + ClauseWords(Len(c.lits), c.learnt),
                              wasted |-> g.to.wasted]]

\* OccLists::clean_all: clean every smudged list.
CleanAll(a, wl, d) ==
    [l \in DOMAIN wl |-> IF l \in d THEN CleanList(a, wl[l]) ELSE wl[l]]

\* Every watcher of every list of the (cleaned) occurrence lists is a clause.
WatchersValid(a, wl) ==
    \A l \in DOMAIN wl : \A x \in DOMAIN wl[l] : ValidCRef(a, wl[l][x].cref)

\* "All watchers": lists in the order v = 0.., s = 0, 1; watchers in list order.
RECURSIVE RelocWatchers(_, _, _)
RelocWatchers(g, l, x) ==
    IF g.fault \/ l >= 2 * next_var THEN g
    ELSE IF x > Len(g.watches[l]) THEN RelocWatchers(g, l + 1, 1)
    ELSE LET cr == g.watches[l][x].cref
             g2 == Reloc(g, cr)
         IN IF g2.fault THEN g2
            ELSE RelocWatchers([g2 EXCEPT !.watches[l][x].cref = g2.map[cr]], l, x + 1)

\* "All reasons": for every literal of the trail, in trail order.
RECURSIVE RelocReasons(_, _)
RelocReasons(g, t) ==
    IF g.fault \/ t > Len(trail) THEN g
    ELSE LET v == VarOf(trail[t])
             reason == g.vardata[v].reason
         IN IF reason = CRefUndef THEN RelocReasons(g, t + 1)
            ELSE IF ~ValidCRef(g.from, reason) THEN [g EXCEPT !.fault = TRUE]
            ELSE IF reason \in DOMAIN g.map
            THEN RelocReasons([g EXCEPT !.vardata[v].reason = g.map[reason]], t + 1)
            ELSE IF ~LockedDerefOk(g.from, g.vardata, reason)
            THEN [g EXCEPT !.fault = TRUE]
            ELSE IF locked(g.from, g.vardata, reason)
            THEN LET g2 == Reloc(g, reason)
                 IN RelocReasons([g2 EXCEPT !.vardata[v].reason = g2.map[reason]],
                                 t + 1)
            ELSE RelocReasons(g, t + 1)

\* "All learnt" / "All original": entries of removed clauses are dropped; the
\* entries kept are stored back as they are (the reloc call is commented out).
RelocList(a, cs) == SelectSeq(cs, LAMBDA cr : a.cl[cr].mark # 1)

ListValid(a, cs) == \A x \in DOMAIN cs : ValidCRef(a, cs[x])

\* Solver::reloc_all followed by `self.ca = to` (Solver::garbage_collect).
garbage_collect(w) ==
    IF w.ca.len < w.ca.wasted THEN [w EXCEPT !.fault = TRUE]
    ELSE LET wl == CleanAll(w.ca, w.watches, w.dirty)
         IN IF ~WatchersValid(w.ca, w.watches) THEN [w EXCEPT !.fault = TRUE]
            ELSE LET g0 == [from |-> w.ca, map |-> <<>>, to |-> EmptyArena,
                            watches |-> wl, vardata |-> w.vardata, fault |-> FALSE]
                     g1 == RelocWatchers(g0, 0, 1)
                     g2 == RelocReasons(g1, 1)
                 IN IF g2.fault \/ ~ListValid(w.ca, w.learnts)
                                \/ ~ListValid(w.ca, w.clauses)
                    THEN [w EXCEPT !.fault = TRUE]
                    ELSE [w EXCEPT !.watches = g2.watches,
                                   !.dirty = {},
                                   !.vardata = g2.vardata,
                                   !.learnts = RelocList(w.ca, w.learnts),
                                   !.clauses = RelocList(w.ca, w.clauses),
                                   !.ca = g2.to]

\* Test of Solver::check_garbage: wasted > len * garbage_frac.
GarbageTest(a) == a.wasted * GarbageFracDen > a.len * GarbageFracNum

\* Solver::check_garbage
check_garbage(w) ==
    IF w.fault THEN w
    ELSE IF GarbageTest(w.ca) THEN garbage_collect(w) ELSE w

\* Solver::rebuild_order_heap
rebuild_order_heap == {v \in Vars : decision[v] /\ assigns[v] = LUndef}

\* A variant of the budget test that wants both conditions (&& for ||).
SimplifySkipBoth == num_assigns = simp_db_assigns /\ simp_db_props > 0

\* The budget test of simplify: nothing to do yet.
SimplifySkip == num_assigns = simp_db_assigns \/ simp_db_props > 0

\* Solver::simplify after the return of propagate.
SimplifyFinish ==
    /\ pc = "prop_ret"
    /\ UNCHANGED <<next_var, assigns, trail, propagations, decision, user_pol,
                   dec_vars, ret_var, added, last_in, nadds>>
    /\ IF prop.confl # CRefUndef
       THEN /\ ok' = FALSE
            /\ ret' = FALSE
            /\ op' = "simplify"
            /\ pc' = "idle"
            /\ prop' = NoProp
            /\ UNCHANGED <<vardata, qhead, clauses, learnts, watches, dirty, ca,
                           stats, simp_db_assigns, simp_db_props, order_heap>>
       ELSE IF SimplifySkip
       THEN /\ ret' = TRUE
            /\ op' = "simplify"
            /\ pc' = "idle"
            /\ prop' = NoProp
            /\ UNCHANGED <<vardata, qhead, ok, clauses, learnts, watches, dirty, ca,
                           stats, simp_db_assigns, simp_db_props, order_heap>>
       ELSE LET w1 == remove_satisfied(Work, TRUE)
                w2 == IF remove_satisfied_flag THEN remove_satisfied(w1, FALSE) ELSE w1
                w3 == check_garbage(w2)
            IN IF w3.fault
               THEN /\ pc' = "fault"
                    /\ UNCHANGED <<vardata, qhead, ok, clauses, learnts, watches,
                                   dirty, ca, stats, simp_db_assigns, simp_db_props,
                                   order_heap, prop, op, ret>>
               ELSE /\ vardata' = w3.vardata
                    /\ clauses' = w3.clauses
                    /\ learnts' = w3.learnts
                    /\ watches' = w3.watches
                    /\ dirty' = w3.dirty
                    /\ ca' = w3.ca
                    /\ stats' = w3.stats
                    /\ qhead' = IF remove_satisfied_flag THEN Len(trail) ELSE qhead
                    /\ order_heap' = rebuild_order_heap
                    /\ simp_db_assigns' = num_assigns
                    /\ simp_db_props' = w3.stats.clauses_literals
                                        + w3.stats.learnts_literals
                    /\ ret' = TRUE
                    /\ op' = "simplify"
                    /\ pc' = "idle"
                    /\ prop' = NoProp
                    /\ UNCHANGED ok

\* ----------------------------------------------------------- specification
Next ==
    \/ NewVarDefault
    \/ AddClauseAny
    \/ SimplifyCall
    \/ PropWatch
    \/ PropEndList
    \/ SimplifyFinish

Spec == Init /\ [][Next]_vars

\* propagate is a loop of one thread: once simplify has called it, its next
\* step is taken.
SpecFair == Spec /\ WF_vars(PropWatch) /\ WF_vars(PropEndList)

\* The same operations for a client that creates up to WideVars variables and
\* adds up to WideAdds vectors of up to WideLen literals.
NewVarWide == NewVarWithin(WideVars, LUndef, TRUE)

InputsWide == [n \in 0..WideVars |-> SeqsUpTo(0..(2 * n - 1), WideLen)]

AddClauseWide == \E input \in InputsWide[next_var] : AddClauseWithin(WideAdds, input)

NextWide ==
    \/ NewVarWide
    \/ AddClauseWide
    \/ SimplifyCall
    \/ PropWatch
    \/ PropEndList
    \/ SimplifyFinish

SpecWide == Init /\ [][NextWide]_vars

\* Solver::set_decision_var called by the client on an existing variable.
SetDecisionVarCall(v, b) ==
    /\ pc = "idle"
    /\ LET sd == SetDecisionVar(decision, dec_vars, order_heap, v, b)
       IN /\ decision' = sd.decision
          /\ dec_vars' = sd.dec_vars
          /\ order_heap' = sd.order_heap
    /\ op' = "set_decision_var"
    /\ UNCHANGED <<next_var, assigns, vardata, trail, qhead, ok, clauses, learnts,
                   watches, dirty, ca, stats, propagations, simp_db_assigns,
                   simp_db_props, user_pol, pc, prop, ret, ret_var, added,
                   last_in, nadds>>

\* A client that creates variables of every polarity and decision flag,
\* changes decision flags, adds short clauses and calls simplify.
NewVarAny ==
    \E upol \in {LTrue, LFalse, LUndef}, dvar \in BOOLEAN :
        NewVarWithin(FlagVars, upol, dvar)

SetDecisionVarAny == \E v \in Vars, b \in BOOLEAN : SetDecisionVarCall(v, b)

InputsFlag == [n \in 0..FlagVars |-> SeqsUpTo(0..(2 * n - 1), FlagLen)]

AddClauseFlag == \E input \in InputsFlag[next_var] : AddClauseWithin(FlagAdds, input)

NextNewVar ==
    \/ NewVarAny
    \/ SetDecisionVarAny
    \/ AddClauseFlag
    \/ SimplifyCall
    \/ PropWatch
    \/ PropEndList
    \/ SimplifyFinish

SpecNewVar == Init /\ [][NextNewVar]_vars

\* The client of the chain scenario: over the variables x1..xn it has created
\* it adds the clauses [-xi, x(i+1)] (any order, repeats allowed), then, once
\* all n-1 of them are in, the unit [x1]; it may call simplify at any time.
ChainClause(i) == <<MkLit(i + 1, FALSE), MkLit(i, TRUE)>>

ChainUnit == <<MkLit(0, FALSE)>>

UnitAdded == Range(ChainUnit) \in added

ChainComplete ==
    /\ next_var >= 2
    /\ \A i \in 0..(next_var - 2) : Range(ChainClause(i)) \in added

NewVarChain == ~UnitAdded /\ NewVarWithin(ChainVars, LUndef, TRUE)

AddChainClause ==
    /\ ~UnitAdded
    /\ \E i \in 0..(next_var - 2) : AddClauseWithin(ChainAdds, ChainClause(i))

AddChainUnit ==
    /\ ChainComplete
    /\ ~UnitAdded
    /\ AddClauseWithin(ChainAdds + 1, ChainUnit)

NextChain ==
    \/ NewVarChain
    \/ AddChainClause
    \/ AddChainUnit
    \/ SimplifyCall
    \/ PropWatch
    \/ PropEndList
    \/ SimplifyFinish

SpecChain == Init /\ [][NextChain]_vars

\* ================================================================== claims
\* propagate has returned to simplify (line 592 -> line 382).
PropagateReturned == pc = "prop_ret"

\* The clause handle propagate returned.
Returned == prop.confl

\* Clauses of the arena that are allocated and not removed.
LiveCRefs == {cr \in DOMAIN ca.cl : ca.cl[cr].mark # 1}

AllFalse(lits) == \A x \in DOMAIN lits : value_lit(lits[x]) = LFalse
SomeTrue(lits) == \E x \in DOMAIN lits : value_lit(lits[x]) = LTrue
SomeUndef(lits) == \E x \in DOMAIN lits : value_lit(lits[x]) = LUndef

\* C1: on every return from propagate, with a conflict clause or with UNDEF,
\* qhead equals trail.len(): the propagation queue is empty.
C1_QueueEmptyOnReturn == PropagateReturned => qhead = Len(trail)

\* C1 witness: propagate returned a conflict it met while literals were still
\* pending (fewer literals dequeued over all calls than the trail holds).
C1_Witness ==
    /\ PropagateReturned
    /\ Returned # CRefUndef
    /\ propagations < Len(trail)
    /\ qhead = Len(trail)

\* C2: whenever propagate returns a CRef other than UNDEF, every literal of
\* that clause is FALSE under the current assignment.
C2_ConflictClauseAllFalse ==
    (PropagateReturned /\ Returned # CRefUndef) => AllFalse(ca.cl[Returned].lits)

\* C3: whenever propagate returns UNDEF, every live clause of clauses and
\* learnts that has no TRUE literal has at least one unassigned literal.
C3_NoFalsifiedClauseLeft ==
    (PropagateReturned /\ Returned = CRefUndef) =>
        \A cr \in LiveCRefs :
            SomeTrue(ca.cl[cr].lits) \/ SomeUndef(ca.cl[cr].lits)

\* C3 witness: propagate returned UNDEF while a live clause has no TRUE
\* literal, a FALSE literal and an unassigned one.
C3_Witness ==
    /\ PropagateReturned
    /\ Returned = CRefUndef
    /\ \E cr \in LiveCRefs \cap Range(clauses) :
          /\ ~SomeTrue(ca.cl[cr].lits)
          /\ SomeUndef(ca.cl[cr].lits)
          /\ \E x \in DOMAIN ca.cl[cr].lits : value_lit(ca.cl[cr].lits[x]) = LFalse

\* A step of propagate that put a literal on the trail.
PropEnqueued == pc = "prop_watch" /\ Len(trail') = Len(trail) + 1

\* C4: every literal propagate enqueues with reason cr is unit-implied: it
\* is c[0] of clause cr and every other literal of cr is FALSE at that moment.
C4_EnqueuedIsUnitImplied ==
    [][PropEnqueued =>
        LET first == trail'[Len(trail')]
            cr == vardata'[VarOf(first)].reason
            c == ca'.cl[cr].lits
        IN /\ c[1] = first
           /\ \A k \in 2..Len(c) : ValueLitIn(assigns, c[k]) = LFalse]_vars

\* Literal l is true under the total assignment m : Vars -> BOOLEAN.
TrueUnder(m, l) == m[VarOf(l)] = ~SignOf(l)

\* Some total assignment satisfies every clause (literal set) of cls.
Satisfiable(cls) ==
    \E m \in [Vars -> BOOLEAN] : \A c \in cls : \E l \in c : TrueUnder(m, l)

\* simplify has just returned r.
SimplifyReturned(r) == pc = "idle" /\ op = "simplify" /\ ret = r

\* C5: simplify returns false (and ok is false) only if the clauses given to
\* add_clause so far have no satisfying assignment.
C5_UnsatVerdictSound ==
    SimplifyReturned(FALSE) => (~ok /\ ~Satisfiable(added))

\* Unit-propagation closure of a set of clauses: the least set of literals
\* holding every literal whose clause has all its other literals refuted.
UPStep(cls, S) ==
    S \cup {l \in Lits : \E c \in cls : l \in c /\ \A k \in c \ {l} : Neg(k) \in S}

RECURSIVE UPClosure(_, _)
UPClosure(cls, S) ==
    IF UPStep(cls, S) = S THEN S ELSE UPClosure(cls, UPStep(cls, S))

\* Literals assigned TRUE.
TrueLits == {l \in Lits : value_lit(l) = LTrue}

\* C6: after clauses were added and simplify propagated them without a
\* conflict, the assigned literals are exactly the unit-propagation closure
\* of the clauses added (hence the same for every order of adding them).
C6_AssignmentIsUPClosure ==
    SimplifyReturned(TRUE) => TrueLits = UPClosure(added, {})

\* The literals of S in ascending order of their index.
RECURSIVE AscendingSeq(_)
AscendingSeq(S) ==
    IF S = {} THEN <<>>
    ELSE LET m == CHOOSE x \in S : \A y \in S : x <= y
         IN <<m>> \o AscendingSeq(S \ {m})

\* A step in which add_clause_reuse ran and returned.
AddReturned == nadds' = nadds + 1

\* C7: add_clause_reuse with ok == true.  A vector with a literal TRUE at
\* level 0, or with a literal and its negation, returns true and changes no
\* solver state.  Otherwise the vector is reduced to its literals that are not
\* FALSE, sorted, without repeats: empty sets ok to false and returns false;
\* one literal is enqueued with reason UNDEF at level 0 and true is returned;
\* two or more are allocated, appended to clauses and attached, and true is
\* returned.  It returns false in no other case.
C7_AddClauseContract ==
    [][(AddReturned /\ ok) =>
        LET S == last_in'
            kept == {l \in S : value_lit(l) # LFalse}
            c == AscendingSeq(kept)
            absorbed == \/ \E l \in S : value_lit(l) = LTrue
                        \/ \E l \in S : Neg(l) \in S
        IN IF absorbed
           THEN ret' = TRUE /\ UNCHANGED solverState
           ELSE IF kept = {}
           THEN ok' = FALSE /\ ret' = FALSE
           ELSE IF Cardinality(kept) = 1
           THEN /\ ret' = TRUE /\ ok'
                /\ trail' = Append(trail, c[1])
                /\ ValueLitIn(assigns', c[1]) = LTrue
                /\ vardata'[VarOf(c[1])] = [reason |-> CRefUndef, level |-> 0]
                /\ UNCHANGED <<clauses, watches, ca>>
           ELSE /\ ret' = TRUE /\ ok'
                /\ Len(clauses') = Len(clauses) + 1
                /\ SubSeq(clauses', 1, Len(clauses)) = clauses
                /\ LET cr == clauses'[Len(clauses')]
                   IN /\ cr \notin DOMAIN ca.cl
                      /\ cr \in DOMAIN ca'.cl
                      /\ ca'.cl[cr] = [lits |-> c, mark |-> 0, learnt |-> FALSE]
                      /\ watches' =
                           [l \in DOMAIN watches |->
                              IF l = Neg(c[1])
                              THEN Append(watches[l], [cref |-> cr, blocker |-> c[2]])
                              ELSE IF l = Neg(c[2])
                              THEN Append(watches[l], [cref |-> cr, blocker |-> c[1]])
                              ELSE watches[l]]
                /\ UNCHANGED <<trail, assigns>>]_vars

\* C7 witness: add_clause_reuse has just allocated and attached a clause
\* that is shorter than the vector it was given (a FALSE literal dropped).
C7_Witness ==
    /\ pc = "idle" /\ op = "add_clause" /\ ret = TRUE /\ ok
    /\ clauses # <<>>
    /\ ~\E l \in last_in : value_lit(l) = LTrue \/ Neg(l) \in last_in
    /\ LET c == ca.cl[clauses[Len(clauses)]].lits
       IN /\ Len(c) >= 2
          /\ Range(c) \subseteq last_in
          /\ Range(c) # last_in
          /\ \A l \in last_in \ Range(c) : value_lit(l) = LFalse

\* C8: ok is a latch.  Once ok is false no step sets it back to true, and
\* every add_clause_reuse and simplify call returns false and leaves the
\* solver state unchanged.
C8_OkLatch ==
    [][~ok =>
        /\ ~ok'
        /\ (op' = "add_clause" \/ op' = "simplify") =>
              (ret' = FALSE /\ UNCHANGED solverState)]_vars

\* C8 witness: ok is false and the last call, an add_clause_reuse of a vector
\* with a literal that is not FALSE, returned false (so ok was false already
\* when it was called).
C8_Witness ==
    /\ ~ok
    /\ pc = "idle" /\ op = "add_clause" /\ ret = FALSE
    /\ \E l \in last_in : value_lit(l) # LFalse

\* Positions of the trail that hold a literal of variable v.
TrailPos(v) == {x \in DOMAIN trail : VarOf(trail[x]) = v}

\* C9: in every reachable state a variable is assigned iff exactly one
\* literal of it is on the trail, that literal is TRUE under assigns, and the
\* trail is no longer than the number of variables.
C9_TrailMatchesAssigns ==
    /\ Len(trail) <= next_var
    /\ \A v \in Vars :
          IF assigns[v] = LUndef
          THEN TrailPos(v) = {}
          ELSE /\ Cardinality(TrailPos(v)) = 1
               /\ \A x \in TrailPos(v) : value_lit(trail[x]) = LTrue

\* C9 witness: every variable is assigned, one of them by propagation.
C9_Witness ==
    /\ next_var >= 2
    /\ Len(trail) = next_var
    /\ \E v \in Vars : vardata[v].reason # CRefUndef
    /\ \E v \in Vars : vardata[v].reason = CRefUndef

\* Clause cr has a watcher in the list of l.
Watched(l, cr) == \E x \in DOMAIN watches[l] : watches[l][x].cref = cr

\* C10: after every propagate, add_clause_reuse and simplify, every attached
\* clause c has a watcher in the list of !c[0] and in the list of !c[1]
\* (smudged lists aside).
C10_BothWatchesPresent ==
    (pc = "prop_ret" \/ pc = "idle") =>
        \A cr \in LiveCRefs :
            \A k \in {1, 2} :
                LET l == Neg(ca.cl[cr].lits[k])
                IN l \in dirty \/ Watched(l, cr)

\* No literal twice and no literal with its negation in the sequence lits.
NoRepeatNoTaut(lits) ==
    \A x, y \in DOMAIN lits :
        x # y => (lits[x] # lits[y] /\ lits[x] # Neg(lits[y]))

\* C11: every live clause of the arena has no literal twice and no literal
\* with its negation; a step of propagate leaves the set of literals of every
\* clause as it was; simplify's clean-up leaves every live clause a clause it
\* had before, less literals only that are FALSE.
C11_ClauseLiteralsPreserved ==
    [][/\ \A cr \in LiveCRefs' : NoRepeatNoTaut(ca'.cl[cr].lits)
       /\ pc = "prop_watch" =>
             \A cr \in DOMAIN ca.cl :
                 Range(ca'.cl[cr].lits) = Range(ca.cl[cr].lits)
       /\ pc = "prop_ret" =>
             \A cr \in LiveCRefs' :
                 \E old \in LiveCRefs :
                     /\ Range(ca'.cl[cr].lits) \subseteq Range(ca.cl[old].lits)
                     /\ \A l \in Range(ca.cl[old].lits) \ Range(ca'.cl[cr].lits) :
                            value_lit(l) = LFalse]_vars

\* A step in which simplify, past its budget test, cleaned the clause lists
\* and returned.
SimplifyCleaned ==
    /\ pc = "prop_ret" /\ Returned = CRefUndef /\ ~SimplifySkip
    /\ pc' = "idle"

\* The handles simplify leaves in clauses and learnts.
ListedAfter == Range(clauses') \cup Range(learnts')

\* C12: after a simplify that cleaned the lists and returned true, every
\* entry of clauses and learnts is a live clause with no TRUE literal, with
\* c[0] and c[1] unassigned and no FALSE literal from position 2 on; every
\* clause that is not in the lists any more is marked removed and has no
\* watcher outside the smudged lists.
C12_SimplifyCleansLists ==
    [][SimplifyCleaned =>
        /\ ret' = TRUE
        /\ \A cr \in ListedAfter :
              /\ cr \in LiveCRefs'
              /\ \A x \in DOMAIN ca'.cl[cr].lits :
                     value_lit(ca'.cl[cr].lits[x]) = LUndef
        /\ \A cr \in LiveCRefs' : cr \in ListedAfter
        /\ \A l \in DOMAIN watches' \ dirty' :
              \A x \in DOMAIN watches'[l] : watches'[l][x].cref \in ListedAfter]_vars

\* The condition the claim names: after the propagation of a simplify call,
\* num_assigns == simp_db_assigns or simp_db_props > 0.
BudgetLeft == Len(trail) = simp_db_assigns \/ simp_db_props > 0

\* simplify's propagate has returned without a conflict.
AfterPropagation == pc = "prop_ret" /\ Returned = CRefUndef

\* A simplify call is running right after a simplify that returned true.
SecondSimplify == op = "simplify" /\ ret = TRUE /\ (pc = "prop_ret" \/ pc' # "idle")

\* C13: a simplify that cleans the lists leaves simp_db_assigns ==
\* num_assigns and simp_db_props == clauses_literals + learnts_literals; a
\* simplify that finds, after its propagation, num_assigns == simp_db_assigns
\* or simp_db_props > 0 returns true and, from there on, changes none of
\* clauses, learnts, the arena, the watch lists, the order heap and
\* simp_db_assigns; a simplify called right after one that returned true
\* changes no solver state.
C13_SimplifyBudget ==
    [][/\ (AfterPropagation /\ ~BudgetLeft /\ pc' = "idle") =>
             /\ simp_db_assigns' = Len(trail')
             /\ simp_db_props' = stats'.clauses_literals + stats'.learnts_literals
       /\ (AfterPropagation /\ BudgetLeft) =>
             /\ pc' = "idle" /\ op' = "simplify" /\ ret' = TRUE
             /\ UNCHANGED <<clauses, learnts, ca, watches, order_heap,
                            simp_db_assigns>>
       /\ SecondSimplify => UNCHANGED solverState]_vars

\* C13 witness: a simplify called right after one that cleaned the lists and
\* returned true has finished its (empty) propagation, with a clause left
\* and a literal assigned.
C13_Witness ==
    /\ pc = "prop_ret" /\ op = "simplify" /\ ret = TRUE
    /\ Returned = CRefUndef
    /\ simp_db_assigns = Len(trail) /\ Len(trail) >= 1
    /\ clauses # <<>>
    /\ simp_db_props > 0

\* The handles held in clauses and learnts.
Listed == Range(clauses) \cup Range(learnts)

\* C14: between operations (so after every garbage collection), every
\* handle the solver holds refers to a clause of the current arena: every
\* entry of clauses and learnts is a live clause, every watcher outside the
\* smudged lists holds the handle of a listed clause, every reason of a
\* variable on the trail is UNDEF or a clause of the arena, and no two
\* entries of clauses are the same handle.
C14_HandlesFollowCollection ==
    pc = "idle" =>
        /\ \A cr \in Listed : cr \in LiveCRefs
        /\ \A l \in DOMAIN watches \ dirty :
              \A x \in DOMAIN watches[l] : watches[l][x].cref \in Listed
        /\ \A x \in DOMAIN trail :
              LET reason == vardata[VarOf(trail[x])].reason
              IN reason = CRefUndef \/ ValidCRef(ca, reason)
        /\ \A x, y \in DOMAIN clauses : x # y => clauses[x] # clauses[y]

\* Sum of the sizes of the clauses the list cs names, from entry x on.
RECURSIVE SumSizes(_, _)
SumSizes(cs, x) ==
    IF x > Len(cs) THEN 0 ELSE Len(ca.cl[cs[x]].lits) + SumSizes(cs, x + 1)

\* C15: between operations the statistics agree with the clause lists:
\* num_clauses is clauses.len() and clauses_literals the sum of the sizes of
\* the clauses in it, and the same for num_learnts, learnts_literals and
\* learnts.
C15_StatisticsConsistent ==
    pc = "idle" =>
        /\ stats.num_clauses = Len(clauses)
        /\ stats.num_learnts = Len(learnts)
        /\ ListValid(ca, clauses) /\ ListValid(ca, learnts)
        /\ stats.clauses_literals = SumSizes(clauses, 1)
        /\ stats.learnts_literals = SumSizes(learnts, 1)

\* The trail of the chain over n variables: x1, x2, .., xn.
ChainTrail(n) == [x \in 1..n |-> MkLit(x - 1, FALSE)]

\* C16: in the chain scenario every add_clause_reuse returns true; the
\* propagate that follows the unit [x1] returns no conflict with the trail
\* x1, x2, .., xn, every xi TRUE at level 0, x1 with reason UNDEF and each of
\* x2..xn enqueued by propagate with its chain clause as reason; simplify then
\* returns true with that trail.
C16_ChainPropagation ==
    /\ (pc = "idle" /\ op = "add_clause") => ret = TRUE
    /\ (UnitAdded /\ PropagateReturned) =>
          /\ Returned = CRefUndef
          /\ trail = ChainTrail(next_var)
          /\ \A v \in Vars : assigns[v] = LTrue /\ vardata[v].level = 0
          /\ prop.num_props > 0 =>
                /\ prop.num_props = next_var
                /\ vardata[0].reason = CRefUndef
                /\ \A v \in Vars \ {0} :
                      /\ ValidCRef(ca, vardata[v].reason)
                      /\ Range(ca.cl[vardata[v].reason].lits)
                            = Range(ChainClause(v - 1))
    /\ (UnitAdded /\ pc = "idle" /\ op = "simplify") =>
          /\ ret = TRUE /\ ok
          /\ trail = ChainTrail(next_var)
          /\ \A v \in Vars : assigns[v] = LTrue

\* C16 witness: the chain of ChainVars variables was added, then the unit,
\* and simplify has returned with ChainVars literals on the trail.
C16_Witness ==
    /\ UnitAdded /\ ChainComplete
    /\ next_var = ChainVars
    /\ pc = "idle" /\ op = "simplify"
    /\ Len(trail) = ChainVars

\* C17: a step that is a call new_var(upol, dvar) returns the previous
\* num_vars() index, a variable not in use before, and num_vars grows by one
\* (nothing in core.rs puts a variable on the free list); the variable is
\* unassigned with reason UNDEF and level 0, both its watch lists are empty,
\* user_pol is upol, decision is dvar, it is in the order heap iff dvar; and
\* after every step dec_vars is the number of variables whose decision flag
\* is true.
C17_NewVarContract ==
    [][/\ \A upol \in {LTrue, LFalse, LUndef}, dvar \in BOOLEAN :
             NewVar(upol, dvar) =>
                 LET v == ret_var'
                 IN /\ v = next_var /\ v \notin Vars
                    /\ next_var' = next_var + 1
                    /\ assigns'[v] = LUndef
                    /\ vardata'[v] = [reason |-> CRefUndef, level |-> 0]
                    /\ watches'[2 * v] = <<>> /\ watches'[2 * v + 1] = <<>>
                    /\ user_pol'[v] = upol
                    /\ decision'[v] = dvar
                    /\ (v \in order_heap') = dvar
       /\ dec_vars' = Cardinality({u \in 0..(next_var' - 1) : decision'[u]})]_vars

\* C17 witness: new_var has just returned the second variable, not a decision
\* variable and with polarity TRUE, while the first variable is assigned and
\* had its decision flag cleared.
C17_Witness ==
    /\ pc = "idle" /\ op = "new_var"
    /\ ret_var = 1 /\ next_var = 2
    /\ ~decision[1] /\ user_pol[1] = LTrue /\ 1 \notin order_heap
    /\ Len(trail) >= 1
    /\ ~decision[0] /\ 0 \in order_heap

\* propagate is running or has just returned, and has met no conflict.
PropagatingNoConflict ==
    (pc' = "prop_watch" \/ pc' = "prop_ret") /\ pc # "prop_ret"
        /\ prop'.confl = CRefUndef

\* The position of the queue when the running propagate was called.
QueueStart == IF pc = "idle" THEN qhead ELSE qhead - prop.num_props

\* C18: every call of propagate returns.  While it runs without a conflict
\* each outer iteration takes the literal at qhead and advances qhead by one,
\* so the literals dequeued are those of the trail from the initial qhead on,
\* once each, in order; the trail never has more than num_vars entries; on
\* return without a conflict all of them have been dequeued; propagations
\* grows and simp_db_props shrinks by the number of literals dequeued.
C18_PropagateProcessesQueue ==
    /\ [][/\ Len(trail') <= next_var'
          /\ PropagatingNoConflict =>
                /\ qhead' - prop'.num_props = QueueStart
                /\ prop'.num_props # (IF pc = "idle" THEN 0 ELSE prop.num_props) =>
                      /\ qhead' = qhead + 1
                      /\ prop'.p = trail[qhead + 1]
          /\ (pc # "prop_ret" /\ pc' = "prop_ret") =>
                /\ propagations' = propagations + prop'.num_props
                /\ simp_db_props' = simp_db_props - prop'.num_props
                /\ prop'.confl = CRefUndef =>
                      prop'.num_props = Len(trail') - QueueStart]_vars
    /\ (pc = "prop_watch") ~> PropagateReturned

\* C18 witness: propagate has returned without a conflict after dequeuing
\* two or more literals, one of them enqueued during the call.
C18_Witness ==
    /\ PropagateReturned /\ Returned = CRefUndef
    /\ prop.num_props >= 2
    /\ qhead = Len(trail)
    /\ vardata[VarOf(trail[Len(trail)])].reason # CRefUndef

\* The watcher the inner loop of propagate is about to visit, its clause,
\* and the clause's watched literal that is not the falsified one.
VisitedWatcher == watches[prop.p][prop.i + 1]
VisitedClause == ca.cl[VisitedWatcher.cref].lits
OtherWatch ==
    IF VisitedClause[1] = Neg(prop.p) THEN VisitedClause[2] ELSE VisitedClause[1]

\* Positions from 2 on (0-based) of the visited clause whose literal is not
\* FALSE.
Replacements == {k \in 3..Len(VisitedClause) : value_lit(VisitedClause[k]) # LFalse}

\* The inner loop inspects a clause whose other watch is not TRUE and that
\* has a replacement for the falsified watch.
ReplacementCase ==
    /\ pc = "prop_watch" /\ prop.i < prop.end
    /\ value_lit(VisitedWatcher.blocker) # LTrue
    /\ ValidCRef(ca, VisitedWatcher.cref)
    /\ value_lit(OtherWatch) # LTrue
    /\ Replacements # {}

\* C19: in the replacement case the step swaps the falsified watch with the
\* first replacement c[k], drops the watcher from p's list (i advances, j
\* does not), appends exactly one watcher of the clause to the list of the
\* negation of the new c[1], enqueues nothing and reports no conflict.
C19_ReplacementWatch ==
    [][ReplacementCase =>
        LET cr == VisitedWatcher.cref
            k == CHOOSE x \in Replacements : \A y \in Replacements : x <= y
            new == VisitedClause[k]
        IN /\ ca'.cl[cr].lits =
                 [x \in DOMAIN VisitedClause |->
                     IF x = 1 THEN OtherWatch
                     ELSE IF x = 2 THEN new
                     ELSE IF x = k THEN Neg(prop.p)
                     ELSE VisitedClause[x]]
           /\ prop'.i = prop.i + 1
           /\ prop'.j = prop.j
           /\ Len(watches'[Neg(new)]) = Len(watches[Neg(new)]) + 1
           /\ SubSeq(watches'[Neg(new)], 1, Len(watches[Neg(new)])) = watches[Neg(new)]
           /\ watches'[Neg(new)][Len(watches'[Neg(new)])].cref = cr
           /\ trail' = trail
           /\ prop'.confl = CRefUndef]_vars

\* The inner loop over the list of p has ended (i == end).
ListProcessed == pc = "prop_watch" /\ prop.i >= prop.end

\* C20: when the watch list of a dequeued literal p has been processed, the
\* list is left holding exactly the watchers the loop kept, the j it wrote to
\* the front of the list, contiguous and in the order it kept them; only the
\* watchers moved to another list are missing.
C20_CompactionKeepsWatchers ==
    [][ListProcessed =>
        /\ Len(watches'[prop.p]) = prop.j
        /\ watches'[prop.p] = SubSeq(watches[prop.p], 1, prop.j)]_vars

\* The search for a new watch as the next step of the inner loop runs it.
SearchResult ==
    LookForWatch(SwapFalseLit(VisitedClause, Neg(prop.p)), 3, watches,
                 Watcher(VisitedWatcher.cref, OtherWatch), Neg(prop.p), prop.p)

\* C21: whenever the inner loop over the list of p is about to push a watcher
\* (the visited clause has a replacement for the falsified watch), no list it
\* pushes to is the list of p: the negation of every literal it moves to c[1]
\* differs from p, and assert_ne!(!c[1], p) does not fail.
C21_PushedListIsNotIterated ==
    ReplacementCase =>
        /\ \A k \in Replacements : Neg(VisitedClause[k]) # prop.p
        /\ ~SearchResult.bad

\* C21 witness: propagate is iterating the list of p and the last watcher of
\* another list is of a clause whose c[1] is that list's literal negated and
\* that holds the literal falsified by p behind its watches: a watcher pushed
\* by the search.
C21_Witness ==
    /\ pc = "prop_watch" /\ prop.i > 0
    /\ \E l \in Lits \ {prop.p} :
          /\ Len(watches[l]) > 0
          /\ LET cr == watches[l][Len(watches[l])].cref
             IN /\ ValidCRef(ca, cr)
                /\ Len(ca.cl[cr].lits) >= 3
                /\ ca.cl[cr].lits[2] = Neg(l)
                /\ \E x \in 3..Len(ca.cl[cr].lits) : ca.cl[cr].lits[x] = Neg(prop.p)

\* The inner loop is about to load the clause of the watcher it visits: the
\* blocker is not TRUE.
ClauseLoaded ==
    /\ pc = "prop_watch" /\ prop.i < prop.end
    /\ value_lit(VisitedWatcher.blocker) # LTrue

\* C22: whenever propagate loads a clause through a watcher of the list of
\* the dequeued literal p, the handle is a clause of the arena and, after the
\* exchange of c[0] and c[1] when c[0] is !p, c[1] is !p: !p was one of the
\* two watched literals and debug_assert_eq!(c[1], false_lit) holds.
C22_FalseLitIsWatched ==
    ClauseLoaded =>
        /\ ValidCRef(ca, VisitedWatcher.cref)
        /\ SwapFalseLit(VisitedClause, Neg(prop.p))[2] = Neg(prop.p)

\* C22 witness: the inner loop has loaded a clause that add_clause_reuse had
\* stored with !p as c[0] (its literals ascending), exchanged c[0] and c[1],
\* kept its watcher and enqueued the new c[0] with the clause as reason.
C22_Witness ==
    /\ pc = "prop_watch" /\ prop.j > 0
    /\ LET cr == watches[prop.p][prop.j].cref
       IN /\ ValidCRef(ca, cr)
          /\ ca.cl[cr].lits[2] = Neg(prop.p)
          /\ ca.cl[cr].lits[1] > ca.cl[cr].lits[2]
          /\ vardata[VarOf(ca.cl[cr].lits[1])].reason = cr

\* Literals whose watch list holds a watcher of a removed clause (mark 1).
RemovedWatchers ==
    {l \in Lits : \E x \in DOMAIN watches[l] :
        /\ ValidCRef(ca, watches[l][x].cref)
        /\ ca.cl[watches[l][x].cref].mark = 1}

\* simplify is about to run remove_satisfied and check_garbage: propagate has
\* returned without a conflict and the budget test lets it go on.
SimplifyCleaning == pc = "prop_ret" /\ prop.confl = CRefUndef /\ ~SimplifySkip

\* The solver after the two remove_satisfied passes of simplify.
AfterRemoval == remove_satisfied(remove_satisfied(Work, TRUE), FALSE)

\* C23: every watch list that holds a watcher of a removed clause is smudged;
\* propagate never loads a removed clause; the removals of simplify smudge
\* the lists of !c[0] and !c[1] of every clause they remove; and the arena a
\* garbage collection builds holds no removed clause.
C23_LazyDeletionComplete ==
    /\ RemovedWatchers \subseteq dirty
    /\ (ClauseLoaded /\ ValidCRef(ca, VisitedWatcher.cref)) =>
           ca.cl[VisitedWatcher.cref].mark # 1
    /\ SimplifyCleaning =>
           LET w == AfterRemoval
           IN /\ ~w.fault
              /\ \A cr \in DOMAIN w.ca.cl :
                    (w.ca.cl[cr].mark = 1 /\ ca.cl[cr].mark # 1) =>
                        {Neg(w.ca.cl[cr].lits[1]), Neg(w.ca.cl[cr].lits[2])}
                            \subseteq w.dirty
              /\ GarbageTest(w.ca) =>
                    LET g == garbage_collect(w)
                    IN /\ ~g.fault
                       /\ \A cr \in DOMAIN g.ca.cl : g.ca.cl[cr].mark # 1

\* The reason of the variable of the trail's x-th literal.
ReasonOf(x) == vardata[VarOf(trail[x])].reason

\* Clauses that the two remove_satisfied passes of simplify remove.
NewlyRemoved(w) ==
    {cr \in DOMAIN ca.cl : ca.cl[cr].mark # 1 /\ w.ca.cl[cr].mark = 1}

\* C24: for every literal of the trail the reason of its variable is UNDEF or
\* the handle of a clause of the arena that is not removed and whose c[0] is
\* that literal; and the removals of simplify set the reason of var(c[0]) to
\* UNDEF for every removed clause that is locked and change no other reason.
C24_NoDanglingReasons ==
    /\ \A x \in DOMAIN trail :
          \/ ReasonOf(x) = CRefUndef
          \/ /\ ValidCRef(ca, ReasonOf(x))
             /\ ca.cl[ReasonOf(x)].mark # 1
             /\ ca.cl[ReasonOf(x)].lits[1] = trail[x]
    /\ SimplifyCleaning =>
          LET w == AfterRemoval
              reset == {VarOf(ca.cl[cr].lits[1]) :
                           cr \in {r \in NewlyRemoved(w) : locked(ca, vardata, r)}}
          IN /\ ~w.fault
             /\ \A v \in Vars :
                   w.vardata[v] = IF v \in reset
                                  THEN [vardata[v] EXCEPT !.reason = CRefUndef]
                                  ELSE vardata[v]

\* C24 witness: the client added [a, b] and [!a]; simplify has propagated
\* !a, enqueued b with the clause as its reason, removed the satisfied clause
\* and returned true: the reason of b is UNDEF again.
C24_Witness ==
    /\ pc = "idle" /\ op = "simplify" /\ ret = TRUE
    /\ added = {{MkLit(0, FALSE), MkLit(1, FALSE)}, {MkLit(0, TRUE)}}
    /\ trail = <<MkLit(0, TRUE), MkLit(1, FALSE)>>
    /\ ReasonOf(2) = CRefUndef
    /\ clauses = <<>>

\* Words of arena a taken by the clauses with handles in S.
RECURSIVE WordsOf(_, _)
WordsOf(a, S) ==
    IF S = {} THEN 0
    ELSE LET cr == CHOOSE x \in S : TRUE
         IN ClauseWords(Len(a.cl[cr].lits), a.cl[cr].learnt) + WordsOf(a, S \ {cr})

\* Words of arena a that belong to a clause that is not removed.
LiveWords(a) == WordsOf(a, {cr \in DOMAIN a.cl : a.cl[cr].mark # 1})

\* C25: in every state ca.wasted() is the number of words of the arena that
\* belong to no live clause, so wasted <= len, and the subtraction
\* len - wasted of garbage_collect does not underflow; the arena is replaced
\* (wasted decreases) only by a step of simplify that follows a propagation
\* without conflict and finds wasted > garbage_frac * len after its removals.
C25_WastedIsExact ==
    /\ [](/\ ca.wasted = ca.len - LiveWords(ca)
          /\ ca.wasted <= ca.len
          /\ SimplifyCleaning =>
                LET w == AfterRemoval
                IN /\ ~w.fault
                   /\ w.ca.wasted = w.ca.len - LiveWords(w.ca)
                   /\ w.ca.wasted <= w.ca.len)
    /\ [][ca'.wasted < ca.wasted =>
            /\ SimplifyCleaning
            /\ GarbageTest(AfterRemoval.ca)
            /\ ca'.wasted = 0]_vars

====
